---- MODULE Spec2Model ----
(***************************************************************************)
(* A model of invoke's command runner (src/invoke/runners.py):            *)
(* normalize_hide, Runner.run, Runner.should_use_pty / Local.should_use_pty,*)
(* Local._mux, Local.start / wait / returncode and Result.                 *)
(*                                                                         *)
(* Python values are written as strings: "None", "True", "False", the      *)
(* integers "0", "1", "2", and str values by their text ("out", "both").   *)
(* An attribute or local that has not been assigned yet is "unset" (or the *)
(* empty sequence where its values are not strings).                       *)
(***************************************************************************)
EXTENDS Integers, Sequences, FiniteSets, TLC

VARIABLES
    \* ---- the platform and the Runner instance (survive run calls)
    WINDOWS,                    \* invoke.platform.WINDOWS
    cls,                        \* "Runner" (the base class) or "Local"
    context,                    \* self.context.config.run: option -> default
    warned_about_pty_fallback,  \* self.warned_about_pty_fallback
    using_pty,                  \* self.using_pty
    status,                     \* self.status (<<>>: never assigned)
    returncode_,                \* self.process.returncode (<<>>: no process, or None)
    warnings,                   \* how many times the fallback warning was written
    calls,                      \* run calls made so far
    \* ---- one run call
    pc,                         \* where run is
    command,                    \* the command: per stream, the bytes it writes
    kwargs,                     \* the caller's keyword arguments still in kwargs
    opts,                       \* opts
    isatty,                     \* what os.isatty(sys.stdin.fileno()) answered
    out_stream, err_stream,     \* the locals of these names
    threads, joined,            \* threads started, and how many of them are joined
    exc,                        \* the exception run raised, "" for none
    result,                     \* <<>> or <<the Result>>
    \* ---- the sinks, with what was written to each during this call
    sinks,
    flushed,                    \* per sink, how many of its writes are flushed
    \* ---- the child process and its output channels
    child,                      \* "none", "running", "exited"
    term,                       \* <<>> or <<how the child terminated>>
    written,                    \* per channel, every byte the child wrote to it
    pipe,                       \* per channel, the bytes in the kernel buffer
    wclosed,                    \* per channel, whether its write end is closed
    \* ---- the two _mux threads
    rpc,                        \* per channel: "none", "read", "emit", "last", "done", "died"
    targs,                      \* per channel, the thread's (dest, hide) arguments
    dec,                        \* per channel, the decoder's undecoded tail
    chunk,                      \* per channel, the decoded chunk being handled
    decoded,                    \* per channel, every chunk the decoder yielded
    buf                         \* per channel, buffer_ (the list of chunks)

inst  == <<WINDOWS, cls, context, warned_about_pty_fallback, using_pty, status,
           returncode_, warnings, calls>>
call  == <<pc, command, kwargs, opts, isatty, out_stream, err_stream, threads, joined,
           exc, result>>
proc  == <<child, term, written, pipe, wclosed>>
mux   == <<rpc, targs, dec, chunk, decoded, buf>>
vars  == <<inst, call, sinks, flushed, proc, mux>>

----------------------------------------------------------------------------
(* Bounds of the model *)

MaxCalls  == 2      \* run calls on the one Runner instance
MaxWrite  == 1      \* bytes the child writes to one channel (specification Spec)
MaxWriteIO == 2     \* the same in the specifications of the I/O claims
PipeCap   == 1      \* capacity of a pipe's (or the pty's) kernel buffer, in bytes
ChunkSize == 2      \* the reader's read size, the source's 1000 scaled to PipeCap
MaxExit   == 1      \* largest exit code of the child
MaxWriteNL == 3     \* bytes the child writes to stdout in SpecNewline
MaxWriteDecode == 3 \* bytes the child writes to stdout in SpecDecode, where
                    \* the kernel buffer holds them all

Channel == {"out", "err"}
Keys == {"warn", "hide", "pty", "fallback", "echo", "encoding",
         "out_stream", "err_stream"}
SinkName == {"sys.stdout", "sys.stderr", "out_obj", "err_obj"}

Min(a, b) == IF a < b THEN a ELSE b
Range(s) == {s[i] : i \in DOMAIN s}

RECURSIVE Flatten(_)
\* ''.join(chunks)
Flatten(ss) == IF ss = <<>> THEN <<>> ELSE Head(ss) \o Flatten(Tail(ss))

\* Python's truth value of one of the modelled values.
Truthy(v) == v \notin {"None", "False", "0", ""}

\* Python's ==: bool is a subclass of int, so False == 0 and True == 1.
PyEq(a, b) == \/ a = b
              \/ {a, b} = {"False", "0"}
              \/ {a, b} = {"True", "1"}

\* Python's `v in tup`, which compares with ==.
PyIn(v, tup) == \E i \in DOMAIN tup : PyEq(v, tup[i])

\* A tuple of stream names written as a string, the way repr writes it: the
\* value opts['hide'] holds after line 160, where it held a string before.
TupleStr(t) ==
    IF t = <<>> THEN "()"
    ELSE IF Len(t) = 1 THEN "('" \o t[1] \o "',)"
    ELSE "('" \o t[1] \o "', '" \o t[2] \o "')"

\* The tuples normalize_hide and its mutations can return.
HideTuples ==
    {<<>>, <<"out", "err">>} \cup {<<v>> : v \in {"out", "err", "stdout", "stderr"}}

\* The tuple that is written as string s.
Items(s) == CHOOSE t \in HideTuples : TupleStr(t) = s

----------------------------------------------------------------------------
(* normalize_hide *)

hide_vals == <<"None", "False", "out", "stdout", "err", "stderr", "both", "True">>

\* Mutation of normalize_hide: the 'stdout' and 'stderr' branches are
\* missing, so these values reach the final else.
normalize_hide_NoAlias(val) ==
    IF ~PyIn(val, hide_vals) THEN [raised |-> "ValueError", value |-> <<>>]
    ELSE IF PyIn(val, <<"None", "False">>) THEN [raised |-> "", value |-> <<>>]
    ELSE IF PyIn(val, <<"both", "True">>)
         THEN [raised |-> "", value |-> <<"out", "err">>]
    ELSE [raised |-> "", value |-> <<val>>]

\* [raised |-> the exception's name or "", value |-> the tuple returned]
normalize_hide(val) ==
    IF ~PyIn(val, hide_vals) THEN [raised |-> "ValueError", value |-> <<>>]
    ELSE IF PyIn(val, <<"None", "False">>) THEN [raised |-> "", value |-> <<>>]
    ELSE IF PyIn(val, <<"both", "True">>)
         THEN [raised |-> "", value |-> <<"out", "err">>]
    ELSE IF PyEq(val, "stdout") THEN [raised |-> "", value |-> <<"out">>]
    ELSE IF PyEq(val, "stderr") THEN [raised |-> "", value |-> <<"err">>]
    ELSE [raised |-> "", value |-> <<val>>]

----------------------------------------------------------------------------
(* The pty policy *)

\* Runner.should_use_pty: the requested value, unchanged.
BaseShouldUsePty(pty, fallback) == pty

\* Mutation of Local.should_use_pty: the warning is written without looking
\* at the flag.
LocalShouldUsePty_Rewarn(pty, fallback, tty, flag) ==
    IF Truthy(pty)
    THEN IF ~tty /\ Truthy(fallback)
         THEN [use |-> "False", warn |-> TRUE, flag |-> TRUE, asked |-> TRUE]
         ELSE [use |-> "True", warn |-> FALSE, flag |-> flag, asked |-> TRUE]
    ELSE [use |-> "False", warn |-> FALSE, flag |-> flag, asked |-> FALSE]

\* Mutation of Local.should_use_pty: it falls back whether or not fallback
\* is allowed.
LocalShouldUsePty_AlwaysFallback(pty, fallback, tty, flag) ==
    IF Truthy(pty)
    THEN IF ~tty
         THEN [use |-> "False", warn |-> ~flag, flag |-> TRUE, asked |-> TRUE]
         ELSE [use |-> "True", warn |-> FALSE, flag |-> flag, asked |-> TRUE]
    ELSE [use |-> "False", warn |-> FALSE, flag |-> flag, asked |-> FALSE]

\* Local.should_use_pty, as a function of its arguments, of the answer of
\* os.isatty and of the instance's flag:
\* [use |-> the value returned, warn |-> whether the warning is written,
\*  flag |-> the flag afterwards, asked |-> whether os.isatty was called]
LocalShouldUsePty(pty, fallback, tty, flag) ==
    IF Truthy(pty)
    THEN IF ~tty /\ Truthy(fallback)
         THEN [use |-> "False", warn |-> ~flag, flag |-> TRUE, asked |-> TRUE]
         ELSE [use |-> "True", warn |-> FALSE, flag |-> flag, asked |-> TRUE]
    ELSE [use |-> "False", warn |-> FALSE, flag |-> flag, asked |-> FALSE]

----------------------------------------------------------------------------
(* The decoder: codecs.iterdecode(..., encoding, errors='replace') for a   *)
(* UTF-8-like encoding.  Bytes: "a" an ASCII letter, "CR" and "LF" the two *)
(* newline bytes, "L" the lead byte of a two-byte character, "T" a         *)
(* continuation byte.  Characters: the ASCII ones, "LT" the two-byte       *)
(* character, "?" the replacement character U+FFFD.                        *)

\* One byte through the incremental decoder: [out, tail].
DecodeByte(tail, b) ==
    IF tail = <<>>
    THEN IF b = "L" THEN [out |-> <<>>, tail |-> <<"L">>]
         ELSE IF b = "T" THEN [out |-> <<"?">>, tail |-> <<>>]
         ELSE [out |-> <<b>>, tail |-> <<>>]
    ELSE IF b = "T" THEN [out |-> <<"LT">>, tail |-> <<>>]
         ELSE IF b = "L" THEN [out |-> <<"?">>, tail |-> <<"L">>]
         ELSE [out |-> <<"?", b>>, tail |-> <<>>]

RECURSIVE Decode(_, _)
\* decoder.decode(data) with the decoder's tail: [out, tail].
Decode(tail, data) ==
    IF data = <<>> THEN [out |-> <<>>, tail |-> tail]
    ELSE LET one == DecodeByte(tail, Head(data))
             rest == Decode(one.tail, Tail(data))
         IN [out |-> one.out \o rest.out, tail |-> rest.tail]

\* decoder.decode(b"", True): an incomplete character becomes U+FFFD.
DecodeFinal(tail) == IF tail = <<>> THEN <<>> ELSE <<"?">>

\* bytes.decode(encoding, 'replace') of a whole byte string.
DecodeAll(data) == LET d == Decode(<<>>, data) IN d.out \o DecodeFinal(d.tail)

----------------------------------------------------------------------------
(* Exit statuses *)

Signals == {9}
Terms == [kind : {"exit"}, n : 0..MaxExit] \cup [kind : {"signal"}, n : Signals]

\* The raw status os.waitpid reports.
WaitStatus(t) == IF t.kind = "exit" THEN t.n * 256 ELSE t.n
\* os.WEXITSTATUS
WEXITSTATUS(st) == (st \div 256) % 256
\* Popen.returncode after wait()
PopenReturncode(t) == IF t.kind = "exit" THEN t.n ELSE 0 - t.n

\* Mutation of Local.returncode: the raw wait status is returned as it is.
returncode_Raw ==
    IF Truthy(using_pty) THEN status[1] ELSE returncode_[1]

\* Local.returncode
returncode ==
    IF Truthy(using_pty) THEN WEXITSTATUS(status[1]) ELSE returncode_[1]

----------------------------------------------------------------------------
(* Universal newlines (run, under `if WINDOWS`) *)

RECURSIVE ReplaceCRLF(_)
\* text.replace("\r\n", "\n")
ReplaceCRLF(t) ==
    IF t = <<>> THEN <<>>
    ELSE IF Len(t) >= 2 /\ t[1] = "CR" /\ t[2] = "LF"
         THEN <<"LF">> \o ReplaceCRLF(Tail(Tail(t)))
         ELSE <<Head(t)>> \o ReplaceCRLF(Tail(t))

\* text.replace("\r", "\n")
ReplaceCR(t) == [i \in DOMAIN t |-> IF t[i] = "CR" THEN "LF" ELSE t[i]]

\* Mutation of the replacements: the bare \r is replaced first.
UniversalNewlines_CRFirst(t) == ReplaceCRLF(ReplaceCR(t))

\* stdout.replace("\r\n", "\n").replace("\r", "\n")
UniversalNewlines(t) == ReplaceCR(ReplaceCRLF(t))

\* The final stdout / stderr string of a buffer.
FinalText(chunks) ==
    IF WINDOWS THEN UniversalNewlines(Flatten(chunks)) ELSE Flatten(chunks)

----------------------------------------------------------------------------
(* The context's defaults (the defaults run's docstring lists) *)

DefaultRun ==
    [warn |-> "False", hide |-> "None", pty |-> "False", fallback |-> "True",
     echo |-> "False", encoding |-> "None", out_stream |-> "None",
     err_stream |-> "None"]

Contexts == {DefaultRun}

\* A context whose defaults are the other way round: truthy where
\* DefaultRun's are falsy, objects for the streams.
TruthyRun ==
    [warn |-> "True", hide |-> "both", pty |-> "True", fallback |-> "True",
     echo |-> "True", encoding |-> "None", out_stream |-> "out_obj",
     err_stream |-> "err_obj"]

\* A context with the default of one option missing: nothing in __init__
\* looks at the defaults, so such a context is stored like any other.
Without(ctx, k) == [j \in DOMAIN ctx \ {k} |-> ctx[j]]
ContextsLacking == {Without(DefaultRun, k) : k \in Keys}

\* The keyword arguments a caller passes; "None" is also what kwargs.pop
\* answers for an argument that was not passed.
HideArgs == {"None", "False", "True", "out", "stdout", "err", "stderr", "both",
             "0", "1", "2", "nope"}
KwargsAll ==
    [warn : {"None", "True"}, hide : HideArgs, pty : {"None", "True"},
     fallback : {"None", "False"}, echo : {"None", "True"},
     encoding : {"None"}, out_stream : {"None", "out_obj"},
     err_stream : {"None", "err_obj"}]

----------------------------------------------------------------------------
(* Init: a Runner was constructed (Runner.__init__) and run was not called *)

NoChannels == [c \in Channel |-> <<>>]

InitOf(platforms, ctxs) ==
    /\ WINDOWS \in platforms
    /\ cls \in {"Runner", "Local"}
    /\ context \in ctxs
    /\ warned_about_pty_fallback = FALSE
    /\ using_pty = "unset"
    /\ status = <<>>
    /\ returncode_ = <<>>
    /\ warnings = 0
    /\ calls = 0
    /\ pc = "idle"
    /\ command = [c \in Channel |-> 0]
    /\ kwargs = <<>>
    /\ opts = <<>>
    /\ isatty = "unset"
    /\ out_stream = "unset"
    /\ err_stream = "unset"
    /\ threads = <<>>
    /\ joined = 0
    /\ exc = ""
    /\ result = <<>>
    /\ sinks = [s \in SinkName |-> <<>>]
    /\ flushed = [s \in SinkName |-> 0]
    /\ child = "none"
    /\ term = <<>>
    /\ written = NoChannels
    /\ pipe = NoChannels
    /\ wclosed = [c \in Channel |-> FALSE]
    /\ rpc = [c \in Channel |-> "none"]
    /\ targs = NoChannels
    /\ dec = NoChannels
    /\ chunk = NoChannels
    /\ decoded = NoChannels
    /\ buf = NoChannels

InitWith(platforms) == InitOf(platforms, Contexts)

----------------------------------------------------------------------------
(* Runner.run, step by step *)

\* opts[k] raises KeyError when the context gave opts no such key.
Has(k) == k \in DOMAIN opts

\* run is not executing: before the first call, or after a call returned
\* or raised.
Idle == pc \in {"idle", "returned", "failed", "raised"}

\* A caller calls run(cmd, **kw), at most maxc times.  The locals, the
\* sinks' records and the process of the call before are gone; the
\* instance's attributes stay.
Call(cmd, kw, maxc) ==
    /\ Idle
    /\ calls < maxc
    /\ calls' = calls + 1
    /\ pc' = "called"
    /\ command' = cmd
    /\ kwargs' = kw
    /\ opts' = <<>>
    /\ isatty' = "unset"
    /\ out_stream' = "unset"
    /\ err_stream' = "unset"
    /\ threads' = <<>>
    /\ joined' = 0
    /\ exc' = ""
    /\ result' = <<>>
    /\ sinks' = [s \in SinkName |-> <<>>]
    /\ flushed' = [s \in SinkName |-> 0]
    /\ child' = "none"
    /\ term' = <<>>
    /\ written' = NoChannels
    /\ pipe' = NoChannels
    /\ wclosed' = [c \in Channel |-> FALSE]
    /\ rpc' = [c \in Channel |-> "none"]
    /\ targs' = NoChannels
    /\ dec' = NoChannels
    /\ chunk' = NoChannels
    /\ decoded' = NoChannels
    /\ buf' = NoChannels
    /\ UNCHANGED <<WINDOWS, cls, context, warned_about_pty_fallback, using_pty,
                   status, returncode_, warnings>>

\* kwargs.pop(key, None): the argument's value, None when it was not passed.
Pop(kw, k) == IF k \in DOMAIN kw THEN kw[k] ELSE "None"

\* Mutation of the resolution: `runtime or value`, the test being the truth
\* value of runtime instead of `is None`.
ResolveOpts_Truthy(ctx, kw) ==
    [k \in DOMAIN ctx |-> IF Truthy(Pop(kw, k)) THEN Pop(kw, k) ELSE ctx[k]]

\* opts[key] = value if runtime is None else runtime, with runtime popped
\* from kwargs.
ResolveOpts(ctx, kw) ==
    [k \in DOMAIN ctx |-> IF Pop(kw, k) = "None" THEN ctx[k] ELSE Pop(kw, k)]

\* Lines 154-157: the loop over the context's defaults.
Resolve ==
    /\ pc = "called"
    /\ opts' = ResolveOpts(context, kwargs)
    /\ kwargs' = [k \in DOMAIN kwargs \ DOMAIN context |-> kwargs[k]]
    /\ pc' = "resolved"
    /\ UNCHANGED <<inst, command, isatty, out_stream, err_stream, threads,
                   joined, exc, result, sinks, flushed, proc, mux>>

\* The command's echo, as print writes it to sys.stdout.
EchoWrite == [by |-> "run", data |-> <<"command">>]

\* Mutation of the order of run: hide is validated after the echo.
Normalize_AfterEcho ==
    /\ pc = "resolved"
    /\ LET r == normalize_hide(opts.hide) IN
         IF r.raised # ""
         THEN /\ pc' = "raised"
              /\ exc' = r.raised
              /\ sinks' = IF Truthy(opts.echo)
                          THEN [sinks EXCEPT !["sys.stdout"] = Append(@, EchoWrite)]
                          ELSE sinks
              /\ UNCHANGED opts
         ELSE /\ pc' = "normalized"
              /\ opts' = [opts EXCEPT !.hide = TupleStr(r.value)]
              /\ UNCHANGED <<exc, sinks>>
    /\ UNCHANGED <<inst, command, kwargs, isatty, out_stream, err_stream, threads,
                   joined, result, proc, mux, flushed>>

\* Line 160: opts['hide'] = normalize_hide(opts['hide']).
Normalize ==
    /\ pc = "resolved"
    /\ IF ~Has("hide")
       THEN /\ pc' = "raised"
            /\ exc' = "KeyError"
            /\ UNCHANGED opts
       ELSE LET r == normalize_hide(opts.hide) IN
         IF r.raised # ""
         THEN /\ pc' = "raised"
              /\ exc' = r.raised
              /\ UNCHANGED opts
         ELSE /\ pc' = "normalized"
              /\ opts' = [opts EXCEPT !.hide = TupleStr(r.value)]
              /\ UNCHANGED exc
    /\ UNCHANGED <<inst, command, kwargs, isatty, out_stream, err_stream, threads,
                   joined, result, sinks, flushed, proc, mux>>

\* Lines 161-170: the stream objects, and the echo of the command.
DeriveAndEcho ==
    /\ pc = "normalized"
    /\ out_stream' = IF ~Has("out_stream") THEN out_stream
                     ELSE IF opts.out_stream = "None" THEN "sys.stdout"
                     ELSE opts.out_stream
    /\ err_stream' = IF ~Has("out_stream") \/ ~Has("err_stream") THEN err_stream
                     ELSE IF opts.err_stream = "None" THEN "sys.stderr"
                     ELSE opts.err_stream
    /\ IF \E k \in {"out_stream", "err_stream", "echo"} : ~Has(k)
       THEN /\ pc' = "raised"
            /\ exc' = "KeyError"
            /\ UNCHANGED sinks
       ELSE /\ sinks' = IF Truthy(opts.echo)
                        THEN [sinks EXCEPT !["sys.stdout"] = Append(@, EchoWrite)]
                        ELSE sinks
            /\ pc' = "echoed"
            /\ UNCHANGED exc
    /\ UNCHANGED <<inst, command, kwargs, opts, isatty, threads, joined, result,
                   proc, mux, flushed>>

\* The fallback warning, as Local.should_use_pty writes it to sys.stderr.
WarningWrite == [by |-> "should_use_pty", data |-> <<"WARNING">>]

\* Line 172: self.using_pty = self.should_use_pty(opts['pty'], opts['fallback']).
DecidePty ==
    /\ pc = "echoed"
    /\ IF ~Has("pty") \/ ~Has("fallback")
       THEN /\ pc' = "raised"
            /\ exc' = "KeyError"
            /\ UNCHANGED <<using_pty, isatty, warned_about_pty_fallback,
                           warnings, sinks>>
       ELSE /\ pc' = "decided"
            /\ UNCHANGED exc
            /\ IF cls = "Runner"
               THEN /\ using_pty' = BaseShouldUsePty(opts.pty, opts.fallback)
                    /\ UNCHANGED <<isatty, warned_about_pty_fallback, warnings,
                                   sinks>>
               ELSE \E tty \in BOOLEAN :
                      LET d == LocalShouldUsePty(opts.pty, opts.fallback, tty,
                                                 warned_about_pty_fallback) IN
                        /\ isatty' = IF d.asked
                                     THEN (IF tty THEN "True" ELSE "False")
                                     ELSE isatty
                        /\ using_pty' = d.use
                        /\ warned_about_pty_fallback' = d.flag
                        /\ warnings' = IF d.warn THEN warnings + 1 ELSE warnings
                        /\ sinks' = IF d.warn
                                    THEN [sinks EXCEPT !["sys.stderr"] =
                                                           Append(@, WarningWrite)]
                                    ELSE sinks
    /\ UNCHANGED <<WINDOWS, cls, context, status, returncode_, calls, command, kwargs,
                   opts, out_stream, err_stream, threads, joined, result,
                   proc, mux, flushed>>

\* Line 174: self.start(command).  The base class has no start; on Windows
\* the pty module is None; creating the process may fail.
Start ==
    /\ pc = "decided"
    /\ \/ /\ \/ cls = "Runner"
             \/ cls = "Local" /\ Truthy(using_pty) /\ WINDOWS
          /\ pc' = "raised"
          /\ exc' = "AttributeError"
          /\ UNCHANGED <<child, returncode_>>
       \/ /\ cls = "Local"
          /\ ~(Truthy(using_pty) /\ WINDOWS)
          /\ pc' = "raised"
          /\ exc' = "OSError"
          /\ UNCHANGED <<child, returncode_>>
       \/ /\ cls = "Local"
          /\ ~(Truthy(using_pty) /\ WINDOWS)
          /\ pc' = "spawned"
          /\ child' = "running"
          /\ returncode_' = IF Truthy(using_pty) THEN returncode_ ELSE <<>>
          /\ UNCHANGED exc
    /\ UNCHANGED <<WINDOWS, cls, context, warned_about_pty_fallback, using_pty,
                   status, warnings, calls, command, kwargs, opts, isatty, out_stream,
                   err_stream, threads, joined, result, sinks, flushed, term, written,
                   pipe, wclosed, mux>>

\* Mutation of argses: the stderr thread is started with a pty too.
argses_Both == <<"out", "err">>

\* Lines 180-188: one _mux thread for stdout, one for stderr unless a pty is
\* used.
argses == IF Truthy(using_pty) THEN <<"out">> ELSE <<"out", "err">>

\* Mutation of the thread arguments: both threads are given out_stream.
ThreadArgs_OutOnly(c) ==
    [dest |-> out_stream, hide |-> c \in Range(Items(opts.hide))]

\* The (dest, hide) arguments of the thread of channel c.
ThreadArgs(c) ==
    [dest |-> IF c = "out" THEN out_stream ELSE err_stream,
     hide |-> c \in Range(Items(opts.hide))]

\* Lines 175-192: encoding = opts['encoding'], after start returned (without
\* the key run raises there, and the child it started is left running,
\* unread); then the next thread of argses is created and started.
StartThread ==
    /\ pc = "spawned"
    /\ IF ~Has("encoding")
       THEN /\ pc' = "raised"
            /\ exc' = "KeyError"
            /\ UNCHANGED <<threads, rpc, targs>>
       ELSE /\ Len(threads) < Len(argses)
            /\ LET c == argses[Len(threads) + 1] IN
                 /\ threads' = Append(threads, c)
                 /\ rpc' = [rpc EXCEPT ![c] = "read"]
                 /\ targs' = [targs EXCEPT ![c] = ThreadArgs(c)]
            /\ pc' = IF Len(threads) + 1 = Len(argses) THEN "streaming"
                     ELSE "spawned"
            /\ UNCHANGED exc
    /\ UNCHANGED <<inst, command, kwargs, opts, isatty, out_stream, err_stream, joined,
                   result, sinks, flushed, proc, dec, chunk, decoded, buf>>

\* Mutation of wait: with a pty the status is stored only if the instance
\* holds none yet, so a later call reads the status of an earlier one.
Wait_KeepStatus ==
    /\ pc = "streaming"
    /\ child = "exited"
    /\ IF Truthy(using_pty)
       THEN /\ status' = IF status = <<>> THEN <<WaitStatus(term[1])>> ELSE status
            /\ UNCHANGED returncode_
       ELSE /\ returncode_' = <<PopenReturncode(term[1])>>
            /\ UNCHANGED status
    /\ pc' = "exited"
    /\ UNCHANGED <<WINDOWS, cls, context, warned_about_pty_fallback, using_pty,
                   warnings, calls, command, kwargs, opts, isatty, out_stream,
                   err_stream, threads, joined, exc, result, sinks, flushed,
                   proc, mux>>

\* Line 194: self.wait() returns once the child has terminated.
Wait ==
    /\ pc = "streaming"
    /\ child = "exited"
    /\ IF Truthy(using_pty)
       THEN /\ status' = <<WaitStatus(term[1])>>
            /\ UNCHANGED returncode_
       ELSE /\ returncode_' = <<PopenReturncode(term[1])>>
            /\ UNCHANGED status
    /\ pc' = "exited"
    /\ UNCHANGED <<WINDOWS, cls, context, warned_about_pty_fallback, using_pty,
                   warnings, calls, command, kwargs, opts, isatty, out_stream,
                   err_stream, threads, joined, exc, result, sinks, flushed, proc, mux>>

\* Mutation of the joins: a join returns whether or not the thread has
\* ended, as if run did not join its threads.
Join_Unfinished ==
    /\ pc = "exited"
    /\ joined < Len(threads)
    /\ joined' = joined + 1
    /\ pc' = IF joined + 1 = Len(threads) THEN "joined" ELSE "exited"
    /\ UNCHANGED <<inst, command, kwargs, opts, isatty, out_stream, err_stream, threads,
                   exc, result, sinks, flushed, proc, mux>>

\* Lines 195-196: t.join() returns once the thread has ended.
Join ==
    /\ pc = "exited"
    /\ joined < Len(threads)
    /\ rpc[threads[joined + 1]] \in {"done", "died"}
    /\ joined' = joined + 1
    /\ pc' = IF joined + 1 = Len(threads) THEN "joined" ELSE "exited"
    /\ UNCHANGED <<inst, command, kwargs, opts, isatty, out_stream, err_stream, threads,
                   exc, result, sinks, flushed, proc, mux>>

\* Result(stdout, stderr, exited, pty, exception)
Result(stdout, stderr, exited, pty, exception) ==
    [stdout |-> stdout, stderr |-> stderr, exited |-> exited, pty |-> pty,
     exception |-> exception]

\* Result.__nonzero__ / Result.ok
Ok(r) == r.exited = 0

\* Mutation of the final test: `and` for `or`.
RaisesFailure_And(r, warn) == ~(Ok(r) /\ Truthy(warn))

\* Whether run raises Failure(result) instead of returning result.
RaisesFailure(r, warn) == ~(Ok(r) \/ Truthy(warn))

\* Lines 197-219: the final strings, the exit code, the Result, and the
\* return or the raise.
Finish ==
    /\ pc = "joined"
    /\ LET r == Result(FinalText(buf["out"]), FinalText(buf["err"]),
                       returncode, using_pty, "False") IN
         IF ~Ok(r) /\ ~Has("warn")
         THEN \* `result or opts['warn']` looks warn up: KeyError, and the
              \* Result that was built is neither returned nor raised.
              /\ pc' = "raised"
              /\ exc' = "KeyError"
              /\ UNCHANGED result
         ELSE /\ result' = <<r>>
              /\ IF RaisesFailure(r, IF Has("warn") THEN opts.warn ELSE "None")
                 THEN pc' = "failed" /\ exc' = "Failure"
                 ELSE pc' = "returned" /\ UNCHANGED exc
    /\ UNCHANGED <<inst, command, kwargs, opts, isatty, out_stream, err_stream, threads,
                   joined, sinks, flushed, proc, mux>>

----------------------------------------------------------------------------
(* The child process.  With pipes it has one channel per stream; with a    *)
(* pty its stdout and stderr are the one terminal, read as channel "out".  *)

ChildChannels == IF Truthy(using_pty) THEN {"out"} ELSE {"out", "err"}

\* How many bytes the command makes the child write to channel c.
Todo(c) ==
    IF Truthy(using_pty)
    THEN (IF c = "out" THEN command["out"] + command["err"] ELSE 0)
    ELSE command[c]

\* The child writes byte b to channel c, and blocks while the buffer is full.
ChildWrite(c, b) ==
    /\ child = "running"
    /\ c \in ChildChannels
    /\ Len(written[c]) < Todo(c)
    /\ Len(pipe[c]) < PipeCap
    /\ written' = [written EXCEPT ![c] = Append(@, b)]
    /\ pipe' = [pipe EXCEPT ![c] = Append(@, b)]
    /\ UNCHANGED <<inst, call, sinks, flushed, child, term, wclosed, mux>>

\* The same with a kernel buffer that holds all that the child writes, so
\* that one read may find several bytes.
ChildWriteBuffered(c, b) ==
    /\ child = "running"
    /\ c \in ChildChannels
    /\ Len(written[c]) < Todo(c)
    /\ Len(pipe[c]) < MaxWriteDecode
    /\ written' = [written EXCEPT ![c] = Append(@, b)]
    /\ pipe' = [pipe EXCEPT ![c] = Append(@, b)]
    /\ UNCHANGED <<inst, call, sinks, flushed, child, term, wclosed, mux>>

\* The child terminates as t, which closes its ends of the channels: it
\* exits when it has written what the command writes, and a signal may end
\* it at any time.
ChildExit(t) ==
    /\ child = "running"
    /\ t.kind = "exit" => \A c \in Channel : Len(written[c]) = Todo(c)
    /\ child' = "exited"
    /\ term' = <<t>>
    /\ wclosed' = [c \in Channel |-> TRUE]
    /\ UNCHANGED <<inst, call, sinks, flushed, written, pipe, mux>>

----------------------------------------------------------------------------
(* Local._mux, the body of one reader thread *)

\* for data in codecs.iterdecode(...): the decoder yields a chunk only when
\* it is not empty.  [rpc, chunk, decoded] after the decoder produced `out`,
\* `next` being where the thread goes when nothing was yielded.
Yield(c, out, emit, next) ==
    /\ rpc' = [rpc EXCEPT ![c] = IF out = <<>> THEN next ELSE emit]
    /\ chunk' = [chunk EXCEPT ![c] = out]
    /\ decoded' = [decoded EXCEPT ![c] = IF out = <<>> THEN @ ELSE Append(@, out)]

\* Mutation of the readers: stderr is read only once stdout is drained, as
\* with one thread reading the two pipes in turn.
MuxRead_Sequential(c) ==
    /\ rpc[c] = "read"
    /\ c = "err" => rpc["out"] \in {"done", "died"}
    /\ pipe[c] # <<>>
    /\ \E k \in 1..Min(ChunkSize, Len(pipe[c])) :
         LET d == Decode(dec[c], SubSeq(pipe[c], 1, k)) IN
           /\ pipe' = [pipe EXCEPT ![c] = SubSeq(@, k + 1, Len(@))]
           /\ dec' = [dec EXCEPT ![c] = d.tail]
           /\ Yield(c, d.out, "emit", "read")
    /\ UNCHANGED <<inst, call, sinks, flushed, child, term, written, wclosed, targs, buf>>

\* data = read_func(1000) answers between one and 1000 of the bytes in the
\* buffer; they go through the decoder.
MuxRead(c) ==
    /\ rpc[c] = "read"
    /\ pipe[c] # <<>>
    /\ \E k \in 1..Min(ChunkSize, Len(pipe[c])) :
         LET d == Decode(dec[c], SubSeq(pipe[c], 1, k)) IN
           /\ pipe' = [pipe EXCEPT ![c] = SubSeq(@, k + 1, Len(@))]
           /\ dec' = [dec EXCEPT ![c] = d.tail]
           /\ Yield(c, d.out, "emit", "read")
    /\ UNCHANGED <<inst, call, sinks, flushed, child, term, written, wclosed, targs, buf>>

\* The buffer is empty and the write end closed.  A pipe's read answers b"":
\* get() ends and the decoder is flushed.  A pty master's read answers b"" on
\* some platforms and raises OSError on others (Linux): nothing catches it,
\* the thread ends there and threading prints the traceback to sys.stderr.
MuxEOF(c) ==
    /\ rpc[c] = "read"
    /\ pipe[c] = <<>>
    /\ wclosed[c]
    /\ \/ /\ Yield(c, DecodeFinal(dec[c]), "last", "done")
          /\ dec' = [dec EXCEPT ![c] = <<>>]
          /\ UNCHANGED sinks
       \/ /\ Truthy(using_pty)
          /\ rpc' = [rpc EXCEPT ![c] = "died"]
          /\ sinks' = [sinks EXCEPT !["sys.stderr"] =
                          Append(@, [by |-> "threading", data |-> <<"Traceback">>])]
          /\ UNCHANGED <<dec, chunk, decoded>>
    /\ UNCHANGED <<inst, call, proc, targs, buf, flushed>>

\* What the loop body writes to dest: the chunk, unless hide.
EchoOf(c, hide, data) ==
    IF hide THEN <<>> ELSE <<[by |-> c, data |-> data]>>

\* Mutation of the loop body: the append is inside `if not hide`.
CaptureOf_UnlessHidden(c, hide, data) == IF hide THEN <<>> ELSE <<data>>

\* What the loop body appends to buffer_.
CaptureOf(c, hide, data) == <<data>>

\* Mutation of the loop body: dest.flush() is missing.
FlushOf_Never(hide, before, now) == before

\* How many writes of dest are flushed after the loop body, of `now` made:
\* dest.flush() flushes them all, unless hide.
FlushOf(hide, before, now) == IF hide THEN before ELSE now

\* Lines 290-293: if not hide: dest.write(data); dest.flush(); then
\* buffer_.append(data).
MuxEmit(c) ==
    /\ rpc[c] \in {"emit", "last"}
    /\ sinks' = [sinks EXCEPT ![targs[c].dest] =
                    @ \o EchoOf(c, targs[c].hide, chunk[c])]
    /\ flushed' = [flushed EXCEPT ![targs[c].dest] =
                      FlushOf(targs[c].hide, @, Len(sinks'[targs[c].dest]))]
    /\ buf' = [buf EXCEPT ![c] = @ \o CaptureOf(c, targs[c].hide, chunk[c])]
    /\ chunk' = [chunk EXCEPT ![c] = <<>>]
    /\ rpc' = [rpc EXCEPT ![c] = IF @ = "emit" THEN "read" ELSE "done"]
    /\ UNCHANGED <<inst, call, proc, targs, dec, decoded>>

----------------------------------------------------------------------------
(* Specifications.  The actions are the same in all of them; each draws    *)
(* the caller's keyword arguments, the child's bytes and the number of     *)
(* calls from the sets its claims need.                                    *)

RunStep ==
    \/ Resolve
    \/ Normalize
    \/ DeriveAndEcho
    \/ DecidePty
    \/ Start
    \/ StartThread
    \/ Wait
    \/ Join
    \/ Finish

MuxStep == \E c \in Channel : MuxRead(c) \/ MuxEOF(c) \/ MuxEmit(c)

NextWith(kws, cmds, bytes, maxc) ==
    \/ \E kw \in kws, cmd \in cmds : Call(cmd, kw, maxc)
    \/ RunStep
    \/ \E c \in Channel, b \in bytes : ChildWrite(c, b)
    \/ \E t \in Terms : ChildExit(t)
    \/ MuxStep

NoKwargs == [k \in Keys |-> "None"]

\* The commands whose child writes at most n bytes to each stream.
Commands(n) == [Channel -> 0..n]

\* Spec: the first call on a new Runner, on either platform, with every
\* value of warn, hide, pty, fallback and echo.
KwargsPolicy ==
    {kw \in KwargsAll : kw.out_stream = "None" /\ kw.err_stream = "None"}
Init == InitWith(BOOLEAN)
Next == NextWith(KwargsPolicy, Commands(MaxWrite), {"a"}, 1)
Spec == Init /\ [][Next]_vars

\* SpecEcho: the first call, with every combination of hide, echo, pty and
\* supplied streams.
KwargsEcho ==
    {kw \in KwargsAll : /\ kw.warn = "None" /\ kw.fallback = "None"
                        /\ kw.hide \in {"None", "out", "err", "both"}}
InitEcho == InitWith({FALSE})
NextEcho == NextWith(KwargsEcho, Commands(MaxWrite), {"a", "L"}, 1)
SpecEcho == InitEcho /\ [][NextEcho]_vars

\* SpecIO: the first call, with a child that writes more than the channels
\* hold.
KwargsIO ==
    {kw \in KwargsAll : /\ kw.hide \in {"None", "both"}
                        /\ \A k \in Keys \ {"hide", "pty"} : kw[k] = "None"}
NextIO == NextWith(KwargsIO, Commands(MaxWriteIO), {"a", "L", "T"}, 1)
SpecIO == InitEcho /\ [][NextIO]_vars

\* FairSpecIO: SpecIO with the scheduler's fairness: the main flow, each
\* reader thread and the child each take their next step when they can.
ChildStep ==
    \/ \E c \in Channel, b \in {"a", "L", "T"} : ChildWrite(c, b)
    \/ \E t \in Terms : t.kind = "exit" /\ ChildExit(t)
MuxThread(c) == MuxRead(c) \/ MuxEOF(c) \/ MuxEmit(c)
FairSpecIO ==
    /\ SpecIO
    /\ WF_vars(RunStep)
    /\ WF_vars(ChildStep)
    /\ \A c \in Channel : WF_vars(MuxThread(c))

\* SpecConfig: the first call on a Runner whose context may lack the default
\* of one option, the caller passing at most one option.
KwargsConfig ==
    {kw \in KwargsAll :
       /\ Cardinality({k \in Keys : kw[k] # "None"}) <= 1
       /\ kw.hide \in {"None", "out"}}
InitConfig == InitOf({FALSE}, Contexts \cup ContextsLacking)
NextConfig == NextWith(KwargsConfig, Commands(MaxWrite), {"a"}, 1)
SpecConfig == InitConfig /\ [][NextConfig]_vars

\* SpecNewline: the first call on either platform, with a child that
\* writes carriage returns and line feeds.
KwargsNewline == {kw \in KwargsIO : kw.hide = "None"}
CommandsNewline == {cmd \in Commands(MaxWriteNL) : cmd["err"] <= 1}
NextNewline == NextWith(KwargsNewline, CommandsNewline, {"a", "CR", "LF"}, 1)
SpecNewline == Init /\ [][NextNewline]_vars

\* SpecOptions: the first call on a Runner with truthy defaults (or lacking
\* one of them), the caller passing some of warn, hide, pty and echo, each
\* as None or as False.
KwargsOptions ==
    UNION {[K -> {"None", "False"}] : K \in SUBSET {"warn", "hide", "pty", "echo"}}
InitOptions ==
    InitOf({FALSE}, {TruthyRun} \cup {Without(TruthyRun, k) : k \in Keys})
NextOptions == NextWith(KwargsOptions, Commands(MaxWrite), {"a"}, 1)
SpecOptions == InitOptions /\ [][NextOptions]_vars

\* SpecDecode: the first call, with a child that writes stdout only and a
\* kernel buffer that holds all of it, so that the reads cut the bytes in
\* every way into chunks of one to ChunkSize bytes.
CommandsDecode == {cmd \in Commands(MaxWriteDecode) : cmd["err"] = 0}
NextDecode ==
    \/ \E kw \in KwargsNewline, cmd \in CommandsDecode : Call(cmd, kw, 1)
    \/ RunStep
    \/ \E c \in Channel, b \in {"a", "L", "T"} : ChildWriteBuffered(c, b)
    \/ \E t \in Terms : ChildExit(t)
    \/ MuxStep
SpecDecode == InitEcho /\ [][NextDecode]_vars

\* SpecCalls: successive calls on one Runner.
KwargsCalls ==
    {kw \in KwargsAll : /\ kw.hide \in {"None", "nope"}
                        /\ \A k \in Keys \ {"hide", "pty", "fallback", "echo"} :
                             kw[k] = "None"}
NextCalls == NextWith(KwargsCalls, Commands(MaxWrite), {"a"}, MaxCalls)
SpecCalls == InitEcho /\ [][NextCalls]_vars

----------------------------------------------------------------------------
(* Properties *)

\* opts['hide'] holds the normalized tuple.
Normalized == pc \notin {"idle", "called", "resolved"} /\ exc # "ValueError"

\* A Result was built (returned, or raised inside a Failure).
Built == result # <<>>

\* The chunks that the reader of channel c wrote to sink s.
ChunksBy(s, c) ==
    LET ws == SelectSeq(sinks[s], LAMBDA w : w.by = c)
    IN [i \in DOMAIN ws |-> ws[i].data]

\* The sink that channel c's echo belongs to, from the options.
DestOf(c) ==
    IF c = "out"
    THEN (IF opts.out_stream = "None" THEN "sys.stdout" ELSE "out_obj")
    ELSE (IF opts.err_stream = "None" THEN "sys.stderr" ELSE "err_obj")

\* C1: once a Result is built, a child that exited with a non-zero code
\* while warn is false makes run raise a Failure carrying the Result, whose
\* exited is that code; an exit code of 0, or a true warn, makes run return
\* the Result and raise nothing.
C1_FailureIffNonzeroAndNotWarn ==
    Built =>
      LET r == result[1]
          t == term[1]
      IN /\ pc \in {"failed", "returned"}
         /\ (t.kind = "exit" /\ t.n # 0 /\ ~Truthy(opts.warn))
              => (pc = "failed" /\ exc = "Failure" /\ r.exited = t.n)
         /\ ((t.kind = "exit" /\ t.n = 0) \/ Truthy(opts.warn))
              => (pc = "returned" /\ exc = "")
         /\ t.kind = "exit" => r.exited = t.n

C1_Witness ==
    /\ Built
    /\ pc = "failed"
    /\ result[1].exited = 1
    /\ ~Truthy(opts.warn)

\* C5: when a pty was used, the Result has an empty stderr and pty true, the
\* stdout reader is the only thread started, and no sink but the out sink
\* holds anything read from the child; when the run fell back to pipes the
\* Result's pty is false.
C5_PtyResult ==
    Built =>
      LET r == result[1] IN
        /\ Truthy(using_pty) =>
             /\ r.stderr = <<>>
             /\ r.pty = "True"
             /\ threads = <<"out">>
             /\ rpc["err"] = "none"
             /\ \A c \in Channel : ChunksBy(DestOf("err"), c) = <<>>
        /\ (Truthy(opts.pty) /\ isatty = "False" /\ Truthy(opts.fallback))
             => r.pty = "False"
        /\ r.pty = using_pty

C5_Witness ==
    /\ Built
    /\ Truthy(using_pty)
    /\ result[1].stdout # <<>>
    /\ result[1].pty = "True"

C5_WitnessFallback ==
    /\ Built
    /\ Truthy(opts.pty)
    /\ result[1].pty = "False"

\* The documented mapping of hide: the canonical set of each accepted value.
Documented(v) ==
    CASE v \in {"None", "False"} -> {}
      [] v \in {"True", "both"} -> {"out", "err"}
      [] v \in {"stdout", "out"} -> {"out"}
      [] v \in {"stderr", "err"} -> {"err"}

DocumentedInputs ==
    {"None", "False", "True", "both", "stdout", "out", "stderr", "err"}

\* The step of run that normalizes hide.
NormalizeStep == pc = "resolved" /\ pc' # "resolved"

\* The step leaves the tuple of exactly the members of set S in opts['hide'].
YieldsSet(S) ==
    /\ pc' = "normalized"
    /\ exc' = ""
    /\ Range(Items(opts'.hide)) = S
    /\ Len(Items(opts'.hide)) = Cardinality(S)

\* The step raises the validation error and yields no set.
RaisesValueError ==
    /\ pc' = "raised"
    /\ exc' = "ValueError"
    /\ opts'.hide = opts.hide

\* C7, as stated: each documented value of hide is normalized to its
\* documented set, and every other value raises the validation error.
C7_Original ==
    [][NormalizeStep =>
         IF opts.hide \in DocumentedInputs
         THEN YieldsSet(Documented(opts.hide))
         ELSE RaisesValueError]_vars

\* C7, amended: each documented value of hide is normalized to its documented
\* set; 0, which equals False, is normalized like False and 1, which equals
\* True, like True; every other value raises the validation error.
C7_NormalizeHide ==
    [][NormalizeStep =>
         IF opts.hide \in DocumentedInputs
         THEN YieldsSet(Documented(opts.hide))
         ELSE IF opts.hide = "0" THEN YieldsSet({})
         ELSE IF opts.hide = "1" THEN YieldsSet({"out", "err"})
         ELSE RaisesValueError]_vars

C7_Witness ==
    /\ pc = "normalized"
    /\ opts.hide = TupleStr(<<"out">>)
    /\ kwargs = <<>>

\* The step of run that takes the pty decision.
DecideStep == pc = "echoed" /\ pc' # "echoed"

FallbackStep ==
    /\ DecideStep
    /\ cls = "Local"
    /\ Truthy(opts.pty)
    /\ Truthy(opts.fallback)
    /\ isatty' = "False"

\* The warnings written to sys.stderr during this call.
WarningsIn(ss) == Len(SelectSeq(ss["sys.stderr"], LAMBDA w : w = WarningWrite))

\* C8: over the calls on one Local runner, the fallback warning is written at
\* most once: the first call that falls back writes it, the later ones do
\* not; the flag, once true, stays true.
C8_WarnOnce ==
    [][/\ warnings' <= 1
       /\ warned_about_pty_fallback => warned_about_pty_fallback'
       /\ warned_about_pty_fallback' = (warnings' = 1)
       /\ FallbackStep =>
            /\ warnings' = 1
            /\ WarningsIn(sinks') = (IF warnings = 0 THEN 1 ELSE 0)
       /\ ~FallbackStep => warnings' = warnings]_vars

C8_Witness ==
    /\ calls = 2
    /\ pc = "decided"
    /\ cls = "Local"
    /\ Truthy(opts.pty)
    /\ Truthy(opts.fallback)
    /\ isatty = "False"
    /\ warnings = 1
    /\ sinks["sys.stderr"] = <<>>

\* C10: when the resolved hide is invalid, run raises the validation error
\* and nothing else has happened: the command is not echoed, the pty decision
\* is not taken (no warning, the flag and the instance as before), no process
\* and no thread is started, and there is no Result.
C10_InvalidHideFirst ==
    [][(NormalizeStep /\ ~PyIn(opts.hide, hide_vals)) =>
         /\ pc' = "raised"
         /\ exc' = "ValueError"
         /\ sinks' = [s \in SinkName |-> <<>>]
         /\ isatty' = "unset"
         /\ child' = "none"
         /\ threads' = <<>>
         /\ \A c \in Channel : rpc'[c] = "none"
         /\ result' = <<>>
         /\ UNCHANGED inst]_vars

C10_Witness ==
    /\ pc = "raised"
    /\ exc = "ValueError"
    /\ Truthy(opts.echo)
    /\ Truthy(opts.pty)
    /\ calls = 2
    /\ warned_about_pty_fallback

\* Every chunk in buffer_ of channel c is a chunk the decoder yielded, and
\* every chunk it yielded is there once the loop body has run for it.
CapturedAll(c) ==
    rpc[c] \in {"read", "done", "died"} => buf[c] = decoded[c]

\* C4, as stated: what is captured does not depend on hide (every decoded
\* chunk is in the buffer and in the Result), and nothing is written to the
\* sink of a hidden stream during the run.
C4_Original ==
    /\ \A c \in Channel : CapturedAll(c)
    /\ Built => /\ result[1].stdout = FinalText(decoded["out"])
                /\ result[1].stderr = FinalText(decoded["err"])
    /\ Normalized => \A c \in Range(Items(opts.hide)) : sinks[DestOf(c)] = <<>>

\* C4, amended: what is captured does not depend on hide (every decoded chunk
\* is in the buffer and in the Result), and no chunk of a hidden stream is
\* written to any sink; run's own echo of the command and the fallback
\* warning are still written.
C4_CaptureIgnoresHide ==
    /\ \A c \in Channel : CapturedAll(c)
    /\ Built => /\ result[1].stdout = FinalText(decoded["out"])
                /\ result[1].stderr = FinalText(decoded["err"])
    /\ Normalized =>
         \A c \in Range(Items(opts.hide)), s \in SinkName : ChunksBy(s, c) = <<>>

C4_Witness ==
    /\ Built
    /\ opts.hide = TupleStr(<<"out">>)
    /\ result[1].stdout # <<>>
    /\ result[1].stderr # <<>>
    /\ sinks[DestOf("out")] = <<EchoWrite>>
    /\ ChunksBy(DestOf("err"), "err") # <<>>

\* Where the chunks of channel c are: in its own sink, all of them unless the
\* stream is hidden, and in no other sink.
EchoedTo(c) ==
    /\ \A s \in SinkName \ {DestOf(c)} : ChunksBy(s, c) = <<>>
    /\ rpc[c] \in {"read", "done", "died"} =>
         ChunksBy(DestOf(c), c) = (IF c \in Range(Items(opts.hide)) THEN <<>> ELSE buf[c])

\* C6, as stated: the chunks of stdout go to the out sink and those of stderr
\* to the err sink, sys.stdout and sys.stderr unless out_stream and err_stream
\* are supplied; the default sink of a stream whose sink is supplied receives
\* nothing.
C6_Original ==
    Normalized =>
      /\ \A c \in Channel : EchoedTo(c)
      /\ opts.out_stream # "None" => sinks["sys.stdout"] = <<>>
      /\ opts.err_stream # "None" => sinks["sys.stderr"] = <<>>

\* C6, amended: the chunks of stdout go to the out sink and those of stderr
\* to the err sink, sys.stdout and sys.stderr unless out_stream and err_stream
\* are supplied; the default sink of a stream whose sink is supplied receives
\* none of the child's output, and what run itself writes (the command's echo
\* to sys.stdout, the fallback warning to sys.stderr) goes to the process's
\* own streams whatever was supplied.
C6_EchoToOwnSink ==
    Normalized =>
      /\ \A c \in Channel : EchoedTo(c)
      /\ opts.out_stream # "None" =>
           \A c \in Channel : ChunksBy("sys.stdout", c) = <<>>
      /\ opts.err_stream # "None" =>
           \A c \in Channel : ChunksBy("sys.stderr", c) = <<>>
      /\ \A s \in {"out_obj", "err_obj"} :
           \A i \in DOMAIN sinks[s] : sinks[s][i].by \in Channel

C6_Witness ==
    /\ Built
    /\ opts.out_stream = "out_obj"
    /\ opts.err_stream = "None"
    /\ ChunksBy("out_obj", "out") # <<>>
    /\ ChunksBy("sys.stderr", "err") # <<>>
    /\ sinks["sys.stdout"] = <<EchoWrite>>

\* The text of channel c in the Result.
ResultText(c) == IF c = "out" THEN result[1].stdout ELSE result[1].stderr

\* C3: when the Result is built, nothing is left in a channel that a reader
\* was started for, and each captured text is the decoding of all the bytes
\* the child wrote to the channel, each once and in the order written.
C3_CapturedExactly ==
    Built =>
      \A c \in Range(threads) :
        /\ pipe[c] = <<>>
        /\ ResultText(c) = DecodeAll(written[c])

\* The same with pipes only, where every read ends with b"".
C3_WithPipes == ~Truthy(using_pty) => C3_CapturedExactly

\* C2: with pipes, run is never stuck while the call is in progress (some
\* step of the main flow, of the child or of a reader can be taken), and a
\* child that was started leads to the Result being built.
InProgress == pc \in {"spawned", "streaming", "exited", "joined"}
C2_NoDeadlock ==
    /\ [](InProgress /\ ~Truthy(using_pty)
            => ENABLED (RunStep \/ ChildStep \/ MuxStep))
    /\ (pc = "spawned" /\ ~Truthy(using_pty)) ~> Built

C2_Witness ==
    /\ Built
    /\ ~Truthy(using_pty)
    /\ Len(written["out"]) = MaxWriteIO
    /\ Len(written["err"]) = MaxWriteIO
    /\ MaxWriteIO > PipeCap

\* Every recognized option has a default in the context.
Complete(ctx) == \A k \in Keys : k \in DOMAIN ctx

\* C11: a context that lacks the default of a recognized option is rejected
\* when the Runner is constructed: no Runner holds such a context, so run is
\* never called on one and never fails on a missing default.
C11_RejectedAtConstruction ==
    ~Complete(context) => (calls = 0 /\ exc # "KeyError")

\* What the code does instead: the Runner is constructed, and a call fails
\* with KeyError where run first looks the option up, unless the option is
\* warn and the child exited with 0.
C11_FailsAtCall ==
    (~Complete(context) /\ pc \in {"returned", "failed"})
       => ("warn" \notin DOMAIN context /\ pc = "returned" /\ Ok(result[1]))

RECURSIVE Newlines(_)
\* The text t read once from left to right, with each \r\n pair and each
\* other \r written as one \n.
Newlines(t) ==
    IF t = <<>> THEN <<>>
    ELSE IF t[1] = "CR"
         THEN <<"LF">> \o Newlines(IF Len(t) >= 2 /\ t[2] = "LF"
                                   THEN Tail(Tail(t)) ELSE Tail(t))
         ELSE <<t[1]>> \o Newlines(Tail(t))

\* The \r\n pairs of t.
Pairs(t) == {i \in 1..(Len(t) - 1) : t[i] = "CR" /\ t[i + 1] = "LF"}

\* C12: on Windows each final string is the captured text with every \r\n
\* and every other \r as one \n: it holds no \r and is shorter than the
\* captured text by the number of \r\n pairs; elsewhere it is the captured
\* text unchanged.
C12_UniversalNewlines ==
    Built =>
      \A c \in Channel :
        LET cap == Flatten(buf[c])
            fin == ResultText(c)
        IN IF WINDOWS
           THEN /\ fin = Newlines(cap)
                /\ "CR" \notin Range(fin)
                /\ Len(fin) = Len(cap) - Cardinality(Pairs(cap))
           ELSE fin = cap

\* On Windows, a captured \r followed by \r\n, the pair cut between two
\* chunks.
C12_Witness ==
    /\ Built
    /\ WINDOWS
    /\ buf["out"] = <<<<"CR">>, <<"CR">>, <<"LF">>>>
    /\ result[1].stdout = <<"LF", "LF">>

\* Elsewhere, a captured \r\n is kept.
C12_WitnessPosix ==
    /\ Built
    /\ ~WINDOWS
    /\ result[1].stdout = <<"CR", "LF">>

\* The phases of one call, in the order of run's text.  "spawned" lasts
\* while the threads are being started, "exited" while they are being
\* joined; a call that raised has left the sequence.
Phases == <<"called", "resolved", "normalized", "echoed", "decided", "spawned",
            "streaming", "exited", "joined", "resulted">>
PhaseOf(p) == IF p \in {"returned", "failed"} THEN "resulted" ELSE p
Rank(p) == IF p \in {"idle", "raised"} THEN 0
           ELSE CHOOSE i \in DOMAIN Phases : Phases[i] = PhaseOf(p)

\* The reader of channel c has read to the end of its channel and ended.
Finished(c) == rpc[c] \in {"done", "died"} /\ pipe[c] = <<>> /\ wclosed[c]

\* C13: within one call the phases follow one another in order, one at a
\* time and never back (a call may only leave the sequence by raising);
\* readers exist only after the pty decision and a launch that succeeded,
\* a reader is joined only after wait returned, and the Result is built
\* only after every started reader has read to the end and been joined.
C13_PhaseOrder ==
    /\ [][(calls' = calls /\ pc' # pc) =>
            /\ pc \notin {"idle", "raised", "returned", "failed"}
            /\ pc' = "raised" \/ Rank(pc') = Rank(pc) + 1]_vars
    /\ [](threads # <<>> =>
            /\ Rank(pc) >= Rank("spawned")
            /\ using_pty \in {"True", "False"}
            /\ child # "none")
    /\ [](\A c \in Channel : rpc[c] # "none" <=> c \in Range(threads))
    /\ [](joined > 0 =>
            /\ Rank(pc) >= Rank("exited")
            /\ child = "exited"
            /\ (IF Truthy(using_pty) THEN status ELSE returncode_) # <<>>
            /\ \A i \in 1..joined : Finished(threads[i]))
    /\ [](Rank(pc) >= Rank("joined") =>
            /\ joined = Len(threads)
            /\ threads = argses
            /\ \A c \in Range(threads) : Finished(c))

\* The child has exited and wait has returned while bytes are still in the
\* stderr pipe; the stdout reader is already joined.
C13_Witness ==
    /\ pc = "exited"
    /\ joined = 1
    /\ pipe["err"] # <<>>
    /\ rpc["err"] = "read"

\* The step of run that fills opts.
ResolveStep == pc = "called" /\ pc' = "resolved"

\* C14 as stated, for a context with every default: every recognized option
\* gets the caller's value when the caller supplied one, and the context's
\* default when the caller did not.
C14_Original ==
    [][(ResolveStep /\ Complete(context)) =>
         \A k \in Keys :
           opts'[k] = (IF k \in DOMAIN kwargs THEN kwargs[k] ELSE context[k])]_vars

\* C14: every option the context has a default for gets the caller's value
\* when the caller supplied one that is not None, a falsy one included, and
\* the context's default when the caller supplied None or nothing; an option
\* the context has no default for gets no value, and the caller's stays in
\* kwargs; afterwards only opts['hide'] changes, to its normalized form.
C14_CallerWinsUnlessNone ==
    /\ [][ResolveStep =>
            /\ DOMAIN opts' = DOMAIN context
            /\ \A k \in DOMAIN context :
                 opts'[k] = (IF k \in DOMAIN kwargs /\ kwargs[k] # "None"
                             THEN kwargs[k] ELSE context[k])
            /\ DOMAIN kwargs' = DOMAIN kwargs \ DOMAIN context]_vars
    /\ [][(calls' = calls /\ pc \notin {"idle", "called"}) =>
            /\ DOMAIN opts' = DOMAIN opts
            /\ \A k \in DOMAIN opts \ {"hide"} : opts'[k] = opts[k]]_vars

\* The caller's False for warn, hide, pty and echo has replaced four truthy
\* defaults, and the call ran to its end with them.
C14_Witness ==
    /\ pc = "failed"
    /\ context = TruthyRun
    /\ \A k \in {"warn", "pty", "echo"} : opts[k] = "False"
    /\ opts.hide = TupleStr(<<>>)
    /\ sinks["sys.stdout"] = <<>>
    /\ sinks["out_obj"] # <<>>

\* C15: the Result's exited is the exit code of the child of this call: with
\* pipes the return code that this call's wait left in the process object,
\* as it is; with a pty the exit code extracted from the raw status that
\* this call's wait stored.
C15_Exited ==
    Built =>
      LET r == result[1]
          t == term[1]
      IN /\ t.kind = "exit" => r.exited = t.n
         /\ ~Truthy(using_pty) =>
              /\ returncode_ = <<PopenReturncode(t)>>
              /\ r.exited = returncode_[1]
         /\ Truthy(using_pty) =>
              /\ status = <<WaitStatus(t)>>
              /\ r.exited = WEXITSTATUS(status[1])

\* A second call on the Runner, with a pty, whose child exited with 1.
C15_Witness ==
    /\ Built
    /\ calls = 2
    /\ Truthy(using_pty)
    /\ term[1] = [kind |-> "exit", n |-> 1]
    /\ result[1].exited = 1

\* The read of the pty master raised OSError in the reader of channel c.
ReadError(c) == rpc[c] = "died"

\* C16: an OSError of the pty read does not make run raise it; the chunks
\* read before it are in the Result, and the Result's exception is that
\* error; a Result of a run without such an error has exception None.
C16_ErrorRecorded ==
    /\ (\E c \in Channel : ReadError(c)) => exc # "OSError"
    /\ Built =>
         /\ result[1].stdout = FinalText(decoded["out"])
         /\ result[1].exception =
               (IF \E c \in Channel : ReadError(c) THEN "OSError" ELSE "None")

\* What the code does: the Result's exception is False in every run, with
\* or without the error; the error ends the reader thread, whose traceback
\* goes to sys.stderr, and run goes on with the chunks read before it.
C16_ExceptionAlwaysFalse ==
    Built =>
      /\ result[1].exception = "False"
      /\ result[1].stdout = FinalText(decoded["out"])
      /\ (\E c \in Channel : ReadError(c)) <=>
           \E i \in DOMAIN sinks["sys.stderr"] :
             sinks["sys.stderr"][i].by = "threading"

\* The reader of channel c is between two passes of its loop, or has ended.
BetweenReads(c) == rpc[c] \in {"read", "done", "died"}

\* Sequence p is the beginning of sequence q.
IsPrefix(p, q) == Len(p) <= Len(q) /\ p = SubSeq(q, 1, Len(p))

\* C17: for a stream that is not hidden, what its reader has written to its
\* sink is always the beginning of the decoded chunks in the order they were
\* read, and all of them whenever the reader is about to read again or has
\* ended, when every one of its writes is also flushed; so at the end the
\* sink holds the captured text as it was before newline normalization.
C17_EchoInReadOrder ==
    \A c \in Range(threads) :
      ~targs[c].hide =>
        LET s == targs[c].dest IN
          /\ s = DestOf(c)
          /\ IsPrefix(ChunksBy(s, c), decoded[c])
          /\ BetweenReads(c) =>
               /\ ChunksBy(s, c) = decoded[c]
               /\ ChunksBy(s, c) = buf[c]
               /\ \A i \in DOMAIN sinks[s] : sinks[s][i].by = c => i <= flushed[s]
          /\ Built => Flatten(ChunksBy(s, c)) = Flatten(buf[c])

\* Two chunks of stdout are in its sink, flushed, and the reader is about to
\* read a third time, while stderr's sink is still empty although the child
\* has written to stderr.
C17_Witness ==
    /\ "out" \in Range(threads)
    /\ ~targs["out"].hide
    /\ rpc["out"] = "read"
    /\ Len(ChunksBy("sys.stdout", "out")) = 2
    /\ flushed["sys.stdout"] = 2
    /\ written["err"] # <<>>
    /\ sinks["sys.stderr"] = <<>>

\* C18: whatever the reads cut the bytes into, once a reader has ended the
\* chunks it captured, put together, are the decoding of all the bytes of
\* its channel taken as one byte string, with U+FFFD for what is invalid.
C18_ChunkingIndependent ==
    \A c \in Range(threads) :
      Finished(c) => Flatten(buf[c]) = DecodeAll(written[c])

\* The same for a reader whose last read answered b"": there it holds, for
\* every cut.
C18_WithNormalEnd ==
    \A c \in Range(threads) :
      (Finished(c) /\ ~ReadError(c)) => Flatten(buf[c]) = DecodeAll(written[c])

\* A two-byte character whose bytes came in two reads, decoded as one
\* character.
C18_CutCharacter ==
    /\ rpc["out"] = "done"
    /\ written["out"] = <<"a", "L", "T">>
    /\ decoded["out"] = <<<<"a">>, <<"LT">>>>
    /\ dec["out"] = <<>>

\* What one call decides and produces, from what belongs to that call alone:
\* its options, the answer of os.isatty, its child and what was read from
\* it.  Nothing of the instance's attributes is used.
OwnPty ==
    IF cls = "Runner" THEN opts.pty
    ELSE IF Truthy(opts.pty) /\ ~(isatty = "False" /\ Truthy(opts.fallback))
         THEN "True" ELSE "False"
OwnExited ==
    IF Truthy(OwnPty) THEN WEXITSTATUS(WaitStatus(term[1]))
    ELSE PopenReturncode(term[1])
OwnResult ==
    Result(FinalText(decoded["out"]), FinalText(decoded["err"]), OwnExited,
           OwnPty, "False")
\* The writes to sink s other than the fallback warning.
WithoutWarning(s) == SelectSeq(sinks[s], LAMBDA w : w # WarningWrite)
\* The chunks of channel c as its reader writes them to sink s.
OwnChunks(s, c) ==
    [i \in 1..(IF c \in Range(threads) /\ s = DestOf(c)
                  /\ c \notin Range(Items(opts.hide))
               THEN Len(decoded[c]) ELSE 0) |->
       [by |-> c, data |-> decoded[c][i]]]
OwnEcho(s) ==
    IF s = "sys.stdout"
    THEN (IF Truthy(opts.echo) THEN <<EchoWrite>> ELSE <<>>)
           \o OwnChunks(s, "out")
    ELSE IF s = "sys.stderr"
    THEN OwnChunks(s, "err")
           \o (IF ReadError("out")
               THEN <<[by |-> "threading", data |-> <<"Traceback">>]>>
               ELSE <<>>)
    ELSE OwnChunks(s, "out") \o OwnChunks(s, "err")

\* C19: over successive calls on one Runner, what a call returns and echoes
\* is determined by that call alone, apart from the fallback warning: the
\* pty mode is the one this call decided, the exit code comes from this
\* call's child, the texts from this call's readers; and a new call starts
\* with nothing of the call before but the instance's attributes, of which
\* only the warned flag is read before it is set again.
C19_OnlyFlagCarriesOver ==
    /\ [](pc \in {"decided", "spawned", "streaming", "exited", "joined",
                   "returned", "failed"} => using_pty = OwnPty)
    /\ [](Built =>
            /\ result[1] = OwnResult
            /\ \A s \in SinkName : WithoutWarning(s) = OwnEcho(s))
    /\ [][calls' = calls + 1 =>
            /\ threads' = <<>> /\ result' = <<>> /\ child' = "none"
            /\ \A c \in Channel : buf'[c] = <<>> /\ decoded'[c] = <<>>]_vars

\* A second call, with pipes, whose child exited with 0, on a Runner that
\* still holds the status 256 of a first call with a pty.
C19_Witness ==
    /\ calls = 2
    /\ pc = "returned"
    /\ ~Truthy(using_pty)
    /\ status = <<256>>
    /\ result[1].exited = 0

\* A second call with a pty, after a first call with a pty whose child
\* exited with another code.
C19_WitnessPtyTwice ==
    /\ calls = 2
    /\ pc = "failed"
    /\ Truthy(using_pty)
    /\ warnings = 1
    /\ result[1].exited = 1

\* The child of this call exited normally with code 0.
ExitedZero == term = <<[kind |-> "exit", n |-> 0]>>

\* C20: a Result is ok, and run returns with a false warn, only if the child
\* exited normally with 0; for a child ended by a signal exited is not 0.
C20_OkOnlyIfExitedZero ==
    Built =>
      /\ Ok(result[1]) => ExitedZero
      /\ (pc = "returned" /\ ~Truthy(opts.warn)) => ExitedZero
      /\ term[1].kind = "signal" => result[1].exited # 0

\* The same with pipes only, where Popen reports a signal as a negative
\* return code: there it holds.
C20_WithPipes == ~Truthy(using_pty) => C20_OkOnlyIfExitedZero

\* With a pty, a child ended by a signal is reported as exited with 0 and
\* run returns.
C20_SignalReportedAsZero ==
    /\ pc = "returned"
    /\ Truthy(using_pty)
    /\ ~Truthy(opts.warn)
    /\ term[1].kind = "signal"
    /\ result[1].exited = 0

====
